---------------------------- MODULE Spec2Model ----------------------------
(***************************************************************************)
(* Model of the Gerrit MCP server (src/src/index.ts): the response         *)
(* unwrapper parseGerritResponse with its axios interceptors, and the      *)
(* CallToolRequestSchema handler with its six tools.                       *)
(*                                                                         *)
(* One behaviour of Spec is one tool invocation.  The handler is cut at    *)
(* its suspension points (each awaited remote call, the 500 ms delay, and  *)
(* each blocking child process); everything the handler does between two   *)
(* suspension points is part of one action.                                *)
(*                                                                         *)
(* Report lines are records [mark, id, detail]:                            *)
(*   "Processed"  ~  `✓ Processed ${id}: ${subject}`                       *)
(*   "Submitted"  ~  `✓ Submitted ${id}`                                   *)
(*   "Synced"     ~  `✓ Synced ${n}/${ps} in ${project}: ${subject}`       *)
(*   "Failed"     ~  `✗ Failed ${id}: ${detail}`                           *)
(*   "Info"       ~  the "No ... changes found" text                       *)
(*   "Error"      ~  `Error: ${errorMessage}` of the outer catch           *)
(*   "Text"       ~  the text of a successful single-operation tool        *)
(* and results.join("\n") is the sequence of the lines in order.           *)
(***************************************************************************)
EXTENDS Integers, Sequences, FiniteSets, TLC

VARIABLES
  pc,         \* position of the handler
  name,       \* request.params.name
  args,       \* request.params.arguments
  query,      \* the query string built by sync_gerrit_to_local
  changes,    \* listResp.data / response.data: [kind, list]
  idx,        \* index of the item the for-loop is at (0 before the loop)
  results,    \* the results array of the running batch
  calls,      \* log of the remote calls and child processes issued
  outcome,    \* how the invocation ended: sequence of returned/thrown records
  body,       \* unwrapper: raw response body given to the interceptor
  path,       \* unwrapper: "none", "success" or "error" interceptor
  data        \* unwrapper: response.data / error.response.data afterwards

vars == <<pc, name, args, query, changes, idx, results, calls, outcome,
          body, path, data>>

handlerVars == <<pc, name, args, query, changes, idx, results, calls, outcome>>
unwrapVars == <<body, path, data>>

----------------------------------------------------------------------------
(* Bounds *)

\* largest number of changes a list query resolves to / ids in changeIds
MaxChanges == 2

\* largest number of characters of a raw body after the 4-character prefix
MaxRest == 5

----------------------------------------------------------------------------
(* Values *)

\* an argument that is not present in the argument record
Absent == "<absent>"
\* an argument whose value is not a string
NonString == "<non-string>"

ToolNames == {"list_changes", "get_change_detail", "set_review",
              "submit_changes", "batch_review_submit_by_topic",
              "sync_gerrit_to_local"}

\* a report line
Line(mark, id, detail) == [mark |-> mark, id |-> id, detail |-> detail]

\* error.response.data after the error interceptor: nothing / empty text,
\* a text, or a JSON object with or without a message field
EmptyData == [kind |-> "empty", text |-> "", hasMessage |-> FALSE, message |-> ""]
TextData(t) == [kind |-> "text", text |-> t, hasMessage |-> FALSE, message |-> ""]
ObjectData(has, m) == [kind |-> "object", text |-> "", hasMessage |-> has, message |-> m]

\* a raised failure: an axios error with a response, or a local Error
AxiosError(d) == [hasResponse |-> TRUE, data |-> d,
                  message |-> "Request failed with status code 409"]
LocalError(m) == [hasResponse |-> FALSE, data |-> EmptyData, message |-> m]

NoError == LocalError("")

\* failures a remote call can raise
RemoteErrors ==
  { AxiosError(TextData("merge conflict")),
    AxiosError(ObjectData(TRUE, "merge conflict")),
    AxiosError(ObjectData(FALSE, "")),
    AxiosError(EmptyData),
    LocalError("Network Error") }

\* failure raised by JSON.parse inside the response interceptor
SyntaxError == LocalError("Unexpected token in JSON")
\* failure raised by a zod schema
ZodError == LocalError("zod: invalid arguments")
\* failure raised by reading a property of undefined / iterating a non-iterable
TypeError == LocalError("TypeError")
\* failures of execSync: non-zero exit status, or the command cannot be started
ExecErrors == { LocalError("Command failed: repo download"),
                LocalError("spawnSync /bin/sh ENOENT") }

\* attributes of the remote change number n
Subject(n) == "subject-" \o ToString(n)
Project(n) == "project-" \o ToString(n)

\* a change of a list response; hasRev: change.revisions[change.current_revision]
\* is present
ChangeInfo(n, hasRev) ==
  [_number |-> n, subject |-> Subject(n), project |-> Project(n),
   hasRev |-> hasRev, patchset |-> n + 1]

RECURSIVE SeqsUpTo(_, _)
\* the sequences over S of length at most n
SeqsUpTo(S, n) ==
  IF n = 0 THEN { <<>> }
  ELSE LET shorter == SeqsUpTo(S, n - 1)
       IN  shorter \cup { Append(s, x) : s \in shorter, x \in S }

Distinct(s) == \A i, j \in 1..Len(s) : i # j => s[i] # s[j]

\* the change lists a query can resolve to: distinct changes in any order
ChangeLists(revs) ==
  UNION { { [i \in 1..Len(ns) |-> ChangeInfo(ns[i], hr[i])] :
              hr \in [1..Len(ns) -> revs] } :
          ns \in { s \in SeqsUpTo(1..MaxChanges, MaxChanges) : Distinct(s) } }

\* response.data of a list query: null, an array of changes, or a JSON value
\* that is not an array
Undefined == [kind |-> "undefined", list |-> <<>>]

ListData(revs) ==
  { [kind |-> "null", list |-> <<>>], [kind |-> "object", list |-> <<>>] }
    \cup { [kind |-> "array", list |-> l] : l \in ChangeLists(revs) }

\* the argument records of an invocation; rest: the remaining fields of the
\* tool's schema (query, limit, revisionId, message, labels, voteVerified,
\* voteReview, element type of changeIds) have the types the schema requires
Args(topic, changeId, changeIds, rest) ==
  [topic |-> topic, changeId |-> changeId, changeIds |-> changeIds, rest |-> rest]

ArgsOf(n) ==
  CASE n = "list_changes" ->
         { Args(Absent, Absent, <<>>, r) : r \in BOOLEAN }
    [] n = "get_change_detail" ->
         { Args(Absent, c, <<>>, TRUE) : c \in {Absent, NonString, "1"} }
    [] n = "set_review" ->
         { Args(Absent, c, <<>>, r) : c \in {Absent, "1"}, r \in BOOLEAN }
    [] n = "submit_changes" ->
         { Args(Absent, Absent, ids, r) :
             ids \in SeqsUpTo(1..2, MaxChanges), r \in BOOLEAN }
    [] n = "batch_review_submit_by_topic" ->
         { Args(t, Absent, <<>>, r) :
             t \in {Absent, NonString, "", "T"}, r \in BOOLEAN }
    [] n = "sync_gerrit_to_local" ->
         { Args(t, c, <<>>, TRUE) :
             t \in {Absent, NonString, "", "T"}, c \in {Absent, NonString, "", "1"} }
    [] OTHER -> { Args(Absent, Absent, <<>>, TRUE) }

----------------------------------------------------------------------------
(* Schemas: TRUE when parse(args) succeeds *)

IsString(v) == v # Absent /\ v # NonString
IsOptionalString(v) == v # NonString

ListChangesSchema(a) == a.rest
GetChangeSchema(a) == IsString(a.changeId)
SetReviewSchema(a) == IsString(a.changeId) /\ a.rest
SyncGerritSchema(a) == IsOptionalString(a.topic) /\ IsOptionalString(a.changeId)
SubmitChangesSchema(a) == a.rest
BatchReviewSubmitSchema(a) == IsString(a.topic) /\ a.rest

\* JavaScript truthiness of an optional string argument
Truthy(v) == v # Absent /\ v # ""

\* the value of query when neither selector is given: the handler throws
MissingSelector == "<missing selector>"

\* a selector resolution that leaves query at its initial "" instead of
\* throwing
ResolveQueryNoThrow(a) ==
  IF Truthy(a.topic) THEN "topic:" \o a.topic
  ELSE IF Truthy(a.changeId) THEN a.changeId
  ELSE ""

\* the selector resolution of sync_gerrit_to_local
ResolveQuery(a) ==
  IF Truthy(a.topic) THEN "topic:" \o a.topic
  ELSE IF Truthy(a.changeId) THEN a.changeId
  ELSE MissingSelector

\* an empty check that tests only !changes
NothingFoundNullOnly(d) == d.kind = "null"

\* !changes || changes.length === 0
NothingFound(d) == d.kind = "null" \/ (d.kind = "array" /\ d.list = <<>>)

----------------------------------------------------------------------------
(* Failure texts *)

\* String(data) of a template literal
TemplateString(d) == IF d.kind = "object" THEN "[object Object]" ELSE d.text

\* `${e.response?.data || e.message}` of the per-item catch
FailureDetail(e) ==
  IF e.hasResponse /\ e.data.kind # "empty"
  THEN TemplateString(e.data)
  ELSE e.message

\* error.response?.data?.message || error.message of the outer catch
ErrorMessage(error) ==
  IF error.hasResponse /\ error.data.kind = "object"
     /\ error.data.hasMessage /\ error.data.message # ""
  THEN error.data.message
  ELSE error.message

\* a response returned by the handler
Response(isError, lines) ==
  [kind |-> "returned", isError |-> isError, lines |-> lines]

\* the outer catch: every failure becomes an error response
OuterCatch(error) == Response(TRUE, << Line("Error", 0, ErrorMessage(error)) >>)

\* a remote call or child process, and the failure it raised (NoError: none)
Call(op, id, e) == [op |-> op, id |-> id, ok |-> (e = NoError), error |-> e]

\* what an awaited remote call can do: resolve, or raise
RemoteOutcomes == {NoError, SyntaxError} \cup RemoteErrors
ExecOutcomes == {NoError} \cup ExecErrors

----------------------------------------------------------------------------
(* The response unwrapper *)

\* the anti-XSS prefix )]}'
Prefix == << ")", "]", "}", "'" >>

\* JSON values: a number or an array of values
NoValue == [t |-> "none", n |-> 0, items |-> <<>>]
Num(n) == [t |-> "num", n |-> n, items |-> <<>>]
Arr(items) == [t |-> "arr", n |-> 0, items |-> items]

\* a response body: a text (its characters), a value that is not a text
\* (null, or an object), a parsed JSON value, or a thrown SyntaxError
Text(chars) == [kind |-> "text", chars |-> chars, value |-> NoValue]
NonText(kind) == [kind |-> kind, chars |-> <<>>, value |-> NoValue]
Json(v) == [kind |-> "json", chars |-> <<>>, value |-> v]
Thrown == NonText("SyntaxError")

\* a failed parse, and a parse of s that ended before position next
NoParse == [ok |-> FALSE, value |-> NoValue, next |-> 0]
Parsed(v, next) == [ok |-> TRUE, value |-> v, next |-> next]

RECURSIVE ParseNumber(_, _, _)
\* the digits of s from position i on, after the digits of value acc
ParseNumber(s, i, acc) ==
  IF i <= Len(s) /\ s[i] = "1"
  THEN ParseNumber(s, i + 1, 10 * acc + 1)
  ELSE Parsed(Num(acc), i)

RECURSIVE ParseValue(_, _)
RECURSIVE ParseElements(_, _, _)
\* the JSON value of s that begins at position i
ParseValue(s, i) ==
  IF i > Len(s) THEN NoParse
  ELSE IF s[i] = "1" THEN ParseNumber(s, i, 0)
  ELSE IF s[i] = "["
  THEN IF i + 1 <= Len(s) /\ s[i + 1] = "]"
       THEN Parsed(Arr(<<>>), i + 2)
       ELSE ParseElements(s, i + 1, <<>>)
  ELSE NoParse

\* the elements of an array from position i on, after the elements acc
ParseElements(s, i, acc) ==
  LET v == ParseValue(s, i)
  IN  IF ~v.ok \/ v.next > Len(s) THEN NoParse
      ELSE IF s[v.next] = ","
      THEN ParseElements(s, v.next + 1, Append(acc, v.value))
      ELSE IF s[v.next] = "]"
      THEN Parsed(Arr(Append(acc, v.value)), v.next + 1)
      ELSE NoParse

\* JSON.parse(s): the value of the whole of s, or a SyntaxError
JSONParse(s) ==
  LET v == ParseValue(s, 1)
  IN  IF v.ok /\ v.next = Len(s) + 1 THEN Json(v.value) ELSE Thrown

\* s.startsWith(p)
StartsWith(s, p) == Len(s) >= Len(p) /\ SubSeq(s, 1, Len(p)) = p

\* s.substring(k)
Substring(s, k) == SubSeq(s, k + 1, Len(s))

\* an unwrapper that removes one character too few
ParseGerritResponseShort(d) ==
  IF d.kind = "text" /\ StartsWith(d.chars, Prefix)
  THEN JSONParse(Substring(d.chars, 3))
  ELSE d

ParseGerritResponse(d) ==
  IF d.kind = "text" /\ StartsWith(d.chars, Prefix)
  THEN JSONParse(Substring(d.chars, 4))
  ELSE d

\* JavaScript truthiness of a response body
TruthyData(d) == ~(d.kind = "null" \/ (d.kind = "text" /\ d.chars = <<>>))

\* the characters of the bodies after what stands in the prefix's place
Alphabet == { "[", "]", "1", "," }

\* the prefix, no prefix, and texts that are nearly the prefix
Beginnings ==
  { Prefix, <<>>, << ")", "]", "}" >>, << "]", ")", "}", "'" >>,
    << "[", ")", "]", "}", "'" >> }

\* the raw bodies given to the interceptors
Bodies ==
  { Text(b \o r) : b \in Beginnings, r \in SeqsUpTo(Alphabet, MaxRest) }
    \cup { NonText("null"), NonText("object") }

\* the raw bodies, before an interceptor has run
InitBodies ==
  /\ body \in Bodies
  /\ path = "none"
  /\ data = body

\* the fulfilled interceptor: response.data = parseGerritResponse(response.data)
InterceptResponse ==
  /\ path = "none"
  /\ path' = "success"
  /\ data' = ParseGerritResponse(data)
  /\ UNCHANGED <<body, handlerVars>>

\* the rejected interceptor, for an error that has a response
InterceptError ==
  /\ path = "none"
  /\ path' = "error"
  /\ data' = IF TruthyData(data) THEN ParseGerritResponse(data) ELSE data
  /\ UNCHANGED <<body, handlerVars>>

----------------------------------------------------------------------------
(* The CallToolRequestSchema handler *)

\* the handler goes on to the suspension point l
Goto(l) == pc' = l /\ outcome' = outcome

\* the handler ends with r
Finish(r) == pc' = "done" /\ outcome' = Append(outcome, r)

\* a loop that puts the new line first (results.unshift)
NextItemUnshift(line, n, l) ==
  /\ results' = << line >> \o results
  /\ IF idx = n
     THEN /\ Finish(Response(FALSE, results'))
          /\ idx' = idx
     ELSE /\ Goto(l)
          /\ idx' = idx + 1

\* results.push(line) at the end of one loop iteration, then the next
\* iteration at suspension point l, or the return of the joined report
NextItem(line, n, l) ==
  /\ results' = Append(results, line)
  /\ IF idx = n
     THEN /\ Finish(Response(FALSE, results'))
          /\ idx' = idx
     ELSE /\ Goto(l)
          /\ idx' = idx + 1

\* for (const item of items) over n items with the first suspension point of
\* the body at l; after a loop of no iteration the empty report is returned
EnterLoop(n, l) ==
  IF n = 0
  THEN Finish(Response(FALSE, <<>>)) /\ idx' = 0
  ELSE Goto(l) /\ idx' = 1

\* a per-item catch that throws the failure on to the outer catch
CatchItemRethrow(line, n, l) ==
  /\ Finish(OuterCatch(LocalError(line.detail)))
  /\ UNCHANGED <<idx, results>>

\* the catch of one item of a loop: the failure becomes the item's line
CatchItem(line, n, l) == NextItem(line, n, l)

InitHandler ==
  /\ pc = "idle"
  /\ name = ""
  /\ args = Args(Absent, Absent, <<>>, TRUE)
  /\ query = ""
  /\ changes = Undefined
  /\ idx = 0
  /\ results = <<>>
  /\ calls = <<>>
  /\ outcome = <<>>

\* the handler from its entry to its first suspension point
Invoke(n, a) ==
  /\ pc = "idle"
  /\ name' = n
  /\ args' = a
  /\ UNCHANGED <<changes, results, calls, unwrapVars>>
  /\ CASE n = "list_changes" ->
            /\ IF ListChangesSchema(a) THEN Goto("list_changes")
                                       ELSE Finish(OuterCatch(ZodError))
            /\ UNCHANGED <<query, idx>>
       [] n = "get_change_detail" ->
            /\ IF GetChangeSchema(a) THEN Goto("get_change_detail")
                                     ELSE Finish(OuterCatch(ZodError))
            /\ UNCHANGED <<query, idx>>
       [] n = "set_review" ->
            /\ IF SetReviewSchema(a) THEN Goto("set_review")
                                     ELSE Finish(OuterCatch(ZodError))
            /\ UNCHANGED <<query, idx>>
       [] n = "submit_changes" ->
            /\ UNCHANGED query
            /\ IF ~SubmitChangesSchema(a)
               THEN Finish(OuterCatch(ZodError)) /\ UNCHANGED idx
               ELSE EnterLoop(Len(a.changeIds), "submit_changes")
       [] n = "batch_review_submit_by_topic" ->
            /\ IF BatchReviewSubmitSchema(a) THEN Goto("batch_list")
                                             ELSE Finish(OuterCatch(ZodError))
            /\ UNCHANGED <<query, idx>>
       [] n = "sync_gerrit_to_local" ->
            /\ UNCHANGED idx
            /\ IF ~SyncGerritSchema(a)
               THEN Finish(OuterCatch(ZodError)) /\ UNCHANGED query
               ELSE IF ResolveQuery(a) = MissingSelector
               THEN /\ Finish(OuterCatch(
                         LocalError("Either topic or changeId must be provided")))
                    /\ UNCHANGED query
               ELSE Goto("sync_list") /\ query' = ResolveQuery(a)
       [] OTHER ->
            /\ Finish(OuterCatch(LocalError("Unknown tool")))
            /\ UNCHANGED <<query, idx>>

\* the rest of a single-operation tool: its one remote call and its response
SingleCall(tool, op, id, e) ==
  /\ pc = tool
  /\ calls' = Append(calls, Call(op, id, e))
  /\ IF e = NoError
     THEN Finish(Response(FALSE, << Line("Text", id, tool) >>))
     ELSE Finish(OuterCatch(e))
  /\ UNCHANGED <<name, args, query, changes, idx, results, unwrapVars>>

ListChanges(e) == SingleCall("list_changes", "list", 0, e)
GetChangeDetail(e) == SingleCall("get_change_detail", "detail", 1, e)
SetReview(e) == SingleCall("set_review", "review", 1, e)

\* a submit_changes loop that stops at the first failed submit
SubmitChangeBreak(e) ==
  /\ pc = "submit_changes"
  /\ LET changeId == args.changeIds[idx]
         n == Len(args.changeIds)
     IN  /\ calls' = Append(calls, Call("submit", changeId, e))
         /\ IF e = NoError
            THEN NextItem(Line("Submitted", changeId, ""), n, "submit_changes")
            ELSE CatchItem(Line("Failed", changeId, FailureDetail(e)), idx,
                           "submit_changes")
  /\ UNCHANGED <<name, args, query, changes, unwrapVars>>

\* one iteration of the submit_changes loop
SubmitChange(e) ==
  /\ pc = "submit_changes"
  /\ LET changeId == args.changeIds[idx]
         n == Len(args.changeIds)
     IN  /\ calls' = Append(calls, Call("submit", changeId, e))
         /\ IF e = NoError
            THEN NextItem(Line("Submitted", changeId, ""), n, "submit_changes")
            ELSE CatchItem(Line("Failed", changeId, FailureDetail(e)), n,
                           "submit_changes")
  /\ UNCHANGED <<name, args, query, changes, unwrapVars>>

\* batch_review_submit_by_topic: the list query and what follows it up to the
\* first vote
BatchList(e, d) ==
  /\ pc = "batch_list"
  /\ calls' = Append(calls, Call("list", 0, e))
  /\ UNCHANGED <<name, args, query, results, unwrapVars>>
  /\ IF e # NoError
     THEN Finish(OuterCatch(e)) /\ UNCHANGED <<changes, idx>>
     ELSE /\ changes' = d
          /\ IF NothingFound(d)
             THEN /\ Finish(Response(FALSE, << Line("Info", 0, "No open changes found for topic") >>))
                  /\ UNCHANGED idx
             ELSE IF d.kind # "array"
             THEN Finish(OuterCatch(TypeError)) /\ UNCHANGED idx
             ELSE EnterLoop(Len(d.list), "batch_vote")

\* a vote whose failure does not end the item: the submit follows anyway
BatchVoteContinue(e) ==
  /\ pc = "batch_vote"
  /\ calls' = Append(calls, Call("review", changes.list[idx]._number, e))
  /\ Goto("batch_delay")
  /\ UNCHANGED <<name, args, query, changes, idx, results, unwrapVars>>

\* 1. Vote
BatchVote(e) ==
  /\ pc = "batch_vote"
  /\ LET changeId == changes.list[idx]._number
     IN  /\ calls' = Append(calls, Call("review", changeId, e))
         /\ IF e = NoError
            THEN Goto("batch_delay") /\ UNCHANGED <<idx, results>>
            ELSE CatchItem(Line("Failed", changeId, FailureDetail(e)),
                           Len(changes.list), "batch_vote")
  /\ UNCHANGED <<name, args, query, changes, unwrapVars>>

\* the 500 ms delay between vote and submit
BatchDelay ==
  /\ pc = "batch_delay"
  /\ Goto("batch_submit")
  /\ UNCHANGED <<name, args, query, changes, idx, results, calls, unwrapVars>>

\* a submit outside the per-item try: its failure reaches the outer catch
BatchSubmitUncaught(e) ==
  /\ pc = "batch_submit"
  /\ LET change == changes.list[idx]
         changeId == change._number
     IN  /\ calls' = Append(calls, Call("submit", changeId, e))
         /\ IF e = NoError
            THEN NextItem(Line("Processed", changeId, change.subject),
                          Len(changes.list), "batch_vote")
            ELSE Finish(OuterCatch(e)) /\ UNCHANGED <<idx, results>>
  /\ UNCHANGED <<name, args, query, changes, unwrapVars>>

\* 2. Submit
BatchSubmit(e) ==
  /\ pc = "batch_submit"
  /\ LET change == changes.list[idx]
         changeId == change._number
     IN  /\ calls' = Append(calls, Call("submit", changeId, e))
         /\ IF e = NoError
            THEN NextItem(Line("Processed", changeId, change.subject),
                          Len(changes.list), "batch_vote")
            ELSE CatchItem(Line("Failed", changeId, FailureDetail(e)),
                           Len(changes.list), "batch_vote")
  /\ UNCHANGED <<name, args, query, changes, unwrapVars>>

\* sync_gerrit_to_local: the list query
SyncList(e, d) ==
  /\ pc = "sync_list"
  /\ calls' = Append(calls, Call("list", 0, e))
  /\ UNCHANGED <<name, args, query, results, unwrapVars>>
  /\ IF e # NoError
     THEN Finish(OuterCatch(e)) /\ UNCHANGED <<changes, idx>>
     ELSE /\ changes' = d
          /\ IF NothingFound(d)
             THEN /\ Finish(Response(FALSE, << Line("Info", 0, "No changes found.") >>))
                  /\ UNCHANGED idx
             ELSE IF d.kind # "array"
             THEN Finish(OuterCatch(TypeError)) /\ UNCHANGED idx
             ELSE EnterLoop(Len(d.list), "sync_download")

\* one iteration of the sync_gerrit_to_local loop: the reads of the change's
\* fields (outside the try), then the child process (inside it)
SyncDownload(e) ==
  /\ pc = "sync_download"
  /\ UNCHANGED <<name, args, query, changes, unwrapVars>>
  /\ LET change == changes.list[idx]
         changeNumber == change._number
     IN  IF ~change.hasRev
         THEN /\ Finish(OuterCatch(TypeError))
              /\ UNCHANGED <<idx, results, calls>>
         ELSE /\ calls' = Append(calls, Call("download", changeNumber, e))
              /\ IF e = NoError
                 THEN NextItem(Line("Synced", changeNumber, change.subject),
                               Len(changes.list), "sync_download")
                 ELSE CatchItem(Line("Failed", changeNumber, e.message),
                                Len(changes.list), "sync_download")

Init ==
  /\ InitHandler
  /\ body = NonText("null")
  /\ path = "none"
  /\ data = NonText("null")

Next ==
  \/ \E n \in ToolNames \cup {"unknown_tool"} : \E a \in ArgsOf(n) : Invoke(n, a)
  \/ \E e \in RemoteOutcomes : ListChanges(e)
  \/ \E e \in RemoteOutcomes : GetChangeDetail(e)
  \/ \E e \in RemoteOutcomes : SetReview(e)
  \/ \E e \in RemoteOutcomes : SubmitChange(e)
  \/ \E e \in RemoteOutcomes : \E d \in ListData({TRUE}) : BatchList(e, d)
  \/ \E e \in RemoteOutcomes : BatchVote(e)
  \/ BatchDelay
  \/ \E e \in RemoteOutcomes : BatchSubmit(e)
  \/ \E e \in RemoteOutcomes : \E d \in ListData(BOOLEAN) : SyncList(e, d)
  \/ \E e \in ExecOutcomes : SyncDownload(e)

Spec == Init /\ [][Next]_vars

\* the unwrapper on the bodies of Bodies
NextUnwrap == InterceptResponse \/ InterceptError

InitUnwrap ==
  /\ InitHandler
  /\ InitBodies

SpecUnwrap == InitUnwrap /\ [][NextUnwrap]_vars

----------------------------------------------------------------------------
(* Properties *)

IsBatchReview == name = "batch_review_submit_by_topic"
IsSync == name = "sync_gerrit_to_local"
Done == pc = "done"

\* the resolved items of the running batch and their number
Items == changes.list
N == Len(Items)

\* the calls of the log with an operation of ops
RECURSIVE Select(_, _)
Select(log, ops) ==
  IF log = <<>> THEN <<>>
  ELSE IF Head(log).op \in ops THEN << Head(log) >> \o Select(Tail(log), ops)
  ELSE Select(Tail(log), ops)

\* the vote and submit calls issued so far
Mutations == Select(calls, {"review", "submit"})

\* one of the steps of item i raised a failure
StepFailed(i) ==
  \E j \in 1..Len(calls) :
    /\ calls[j].op \in {"review", "submit", "download"}
    /\ calls[j].id = Items[i]._number
    /\ ~calls[j].ok

\* item i was processed: its first step was issued
Processed(i) ==
  \E j \in 1..Len(calls) :
    calls[j].op \in {"review", "download"} /\ calls[j].id = Items[i]._number

\* C1: batch_review_submit_by_topic over N >= 1 resolved changes returns N
\* lines; an item's line is a failure line iff one of its own steps (vote or
\* submit) failed, every other item has the success line with its subject,
\* and every item is processed whatever happened to the others.
C1_PerItemIsolation ==
  (IsBatchReview /\ Done /\ N >= 1) =>
    /\ Len(outcome) = 1
    /\ Len(outcome[1].lines) = N
    /\ \A i \in 1..N :
         /\ Processed(i)
         /\ IF StepFailed(i)
            THEN /\ outcome[1].lines[i].mark = "Failed"
                 /\ outcome[1].lines[i].id = Items[i]._number
            ELSE outcome[1].lines[i] =
                   Line("Processed", Items[i]._number, Items[i].subject)

\* the first item failed at its vote and the second was processed with success
C1_Witness ==
  /\ IsBatchReview /\ Done /\ N >= 2
  /\ Len(calls) >= 2 /\ calls[2].op = "review" /\ ~calls[2].ok
  /\ Len(outcome) = 1 /\ Len(outcome[1].lines) = N
  /\ outcome[1].lines[1].mark = "Failed"
  /\ outcome[1].lines[2].mark = "Processed"

\* the results so far report the first Len(results) items, in query order
PrefixReport ==
  /\ Len(results) <= N
  /\ \A i \in 1..Len(results) :
       /\ results[i].id = Items[i]._number
       /\ results[i].mark \in {"Processed", "Synced", "Failed"}
       /\ results[i].mark = "Failed" <=> StepFailed(i)

\* a step leaves the results alone or appends one line to them
AppendOnly ==
  \/ results' = results
  \/ /\ Len(results') = Len(results) + 1
     /\ SubSeq(results', 1, Len(results)) = results

\* C2: in both batch operations result line i reports resolved item i, in the
\* order of the query's answer, for every pattern of failures: the results
\* are at every point the report of a prefix of the items, lines are only
\* appended, and the returned report is that list.
C2_OrderPreserved ==
  /\ []((IsBatchReview \/ IsSync) => PrefixReport)
  /\ []((IsBatchReview \/ IsSync) /\ Done /\ N >= 1 /\ ~outcome[1].isError
          => outcome[1].lines = results /\ Len(results) = N)
  /\ [][AppendOnly]_vars

\* a finished batch whose answer was not in ascending order of change number
\* and whose first item failed while a later one succeeded
C2_Witness ==
  /\ (IsBatchReview \/ IsSync) /\ Done /\ N >= 2
  /\ Items[1]._number > Items[2]._number
  /\ Len(results) = N
  /\ results[1].mark = "Failed"
  /\ results[2].mark \in {"Processed", "Synced"}

\* the failure detail the report is said to carry: the upstream message
\* (the message field of the error payload, or the payload when it is itself
\* the message text), else the message of the local failure
UpstreamOrLocalMessage(e) ==
  IF e.hasResponse /\ e.data.kind = "object" /\ e.data.hasMessage
  THEN e.data.message
  ELSE IF e.hasResponse /\ e.data.kind = "text"
  THEN e.data.text
  ELSE e.message

\* C3: the failure line of a batch item carries the upstream-provided error
\* message of the failed call's error payload, and the local failure's own
\* message when the payload provides none.
C3_FailureDetail ==
  IsBatchReview =>
    \A i \in 1..Len(results) :
      results[i].mark = "Failed" =>
        \E j \in 1..Len(calls) :
          /\ calls[j].id = results[i].id
          /\ ~calls[j].ok
          /\ results[i].detail = UpstreamOrLocalMessage(calls[j].error)

\* C4: sync_gerrit_to_local over N >= 1 resolved changes returns one line per
\* change; a failure raised while processing one change is captured in that
\* change's line and never aborts the other changes or the invocation.
C4_SyncIsolation ==
  (IsSync /\ Done /\ N >= 1) =>
    /\ Len(outcome) = 1
    /\ ~outcome[1].isError
    /\ Len(outcome[1].lines) = N
    /\ \A i \in 1..N :
         /\ outcome[1].lines[i].id = Items[i]._number
         /\ outcome[1].lines[i].mark = "Failed" <=> StepFailed(i)

\* the query of the running batch resolved to an empty item set
EmptySet == changes.kind \in {"null", "array"} /\ changes.list = <<>>

\* C5: when the query of a batch operation resolves to an empty item set the
\* operation returns exactly one informational line, not flagged as an error,
\* and has issued no vote, no submit and no download.
C5_EmptySet ==
  ((IsBatchReview \/ IsSync) /\ Done /\ EmptySet) =>
    /\ Len(outcome) = 1
    /\ ~outcome[1].isError
    /\ Len(outcome[1].lines) = 1
    /\ outcome[1].lines[1].mark = "Info"
    /\ Select(calls, {"review", "submit", "download"}) = <<>>

\* a batch whose list query was answered with an empty array
C5_Witness ==
  /\ IsBatchReview \/ IsSync
  /\ Done
  /\ changes.kind = "array" /\ changes.list = <<>>
  /\ Len(calls) = 1 /\ calls[1].op = "list" /\ calls[1].ok

\* C6: sync_gerrit_to_local invoked with neither a topic nor a change
\* identifier ends with the missing-selector error response, and no list
\* query and no download is issued in that invocation.
C6_MissingSelector ==
  (IsSync /\ args.topic = Absent /\ args.changeId = Absent) =>
    /\ Done
    /\ calls = <<>>
    /\ Len(outcome) = 1
    /\ outcome[1].isError
    /\ outcome[1].lines =
         << Line("Error", 0, "Either topic or changeId must be provided") >>

\* sync_gerrit_to_local was invoked without a selector
C6_Witness ==
  /\ IsSync /\ Done
  /\ args.topic = Absent /\ args.changeId = Absent
  /\ Len(outcome) = 1

\* the argument record passes the schema of the tool
ArgsValid ==
  CASE name = "list_changes" -> ListChangesSchema(args)
    [] name = "get_change_detail" -> GetChangeSchema(args)
    [] name = "set_review" -> SetReviewSchema(args)
    [] name = "submit_changes" -> SubmitChangesSchema(args)
    [] name = "batch_review_submit_by_topic" -> BatchReviewSubmitSchema(args)
    [] name = "sync_gerrit_to_local" -> SyncGerritSchema(args)
    [] OTHER -> TRUE

IsSingle == name \in {"list_changes", "get_change_detail", "set_review"}

\* the text of an error response: the message field of the upstream error
\* payload, else the message of the local failure
PayloadOrLocalMessage(e) ==
  IF e.hasResponse /\ e.data.kind = "object" /\ e.data.hasMessage
     /\ e.data.message # ""
  THEN e.data.message
  ELSE e.message

\* C7: every invocation ends with exactly one returned response and nothing
\* thrown; a failure of a single-operation tool or an unknown tool name gives
\* an error response whose text prefers the upstream payload's message field
\* over the local message; in a batch tool a failure of an item is folded
\* into the report instead of becoming an error response.
C7_ToolBoundary ==
  /\ ~Done => outcome = <<>>
  /\ Done =>
       /\ Len(outcome) = 1
       /\ outcome[1].kind = "returned"
       /\ (name \notin ToolNames) => outcome[1].isError
       /\ (IsSingle /\ ~ArgsValid) =>
            outcome[1] = Response(TRUE, << Line("Error", 0, ZodError.message) >>)
       /\ (IsSingle /\ ArgsValid) =>
            /\ Len(calls) = 1
            /\ outcome[1].isError = ~calls[1].ok
            /\ ~calls[1].ok =>
                 outcome[1].lines =
                   << Line("Error", 0, PayloadOrLocalMessage(calls[1].error)) >>
       /\ (~IsSingle /\ name \in ToolNames /\ idx >= 1) =>
            /\ ~outcome[1].isError
            /\ outcome[1].lines = results

\* the calls issued for item i, in the order of their issue
RECURSIVE CallsOf(_, _)
CallsOf(log, id) ==
  IF log = <<>> THEN <<>>
  ELSE IF Head(log).id = id THEN << Head(log) >> \o CallsOf(Tail(log), id)
  ELSE CallsOf(Tail(log), id)

\* the calls of items 1..k, item after item
RECURSIVE ItemByItem(_, _)
ItemByItem(log, k) ==
  IF k = 0 THEN <<>>
  ELSE ItemByItem(log, k - 1) \o CallsOf(log, Items[k]._number)

\* the state of item i in the vote-then-submit state machine
ItemState(i) ==
  IF i <= Len(results)
  THEN IF results[i].mark = "Failed" THEN "Failed" ELSE "Submitted"
  ELSE IF i = idx /\ pc \in {"batch_delay", "batch_submit"} THEN "Voted"
  ELSE "Pending"

\* the shape of the calls of one item in its state
ItemCallsOk(i) ==
  LET c == CallsOf(Tail(calls), Items[i]._number)
      ops == [j \in 1..Len(c) |-> c[j].op]
      oks == [j \in 1..Len(c) |-> c[j].ok]
  IN  CASE ItemState(i) = "Pending" -> c = <<>>
        [] ItemState(i) = "Voted" -> ops = <<"review">> /\ oks = <<TRUE>>
        [] ItemState(i) = "Submitted" ->
             ops = <<"review", "submit">> /\ oks = <<TRUE, TRUE>>
        [] ItemState(i) = "Failed" ->
             \/ ops = <<"review">> /\ oks = <<FALSE>>
             \/ ops = <<"review", "submit">> /\ oks = <<TRUE, FALSE>>

\* C9: the remote mutating calls of one batch_review_submit_by_topic are the
\* concatenation, in item order, of each item's calls: one vote, followed by
\* one submit iff the vote succeeded; no call of item i+1 before item i is
\* Submitted or Failed, no submit after a failed vote, no repeated call, no
\* call undoing a vote.
C9_CallSequence ==
  (IsBatchReview /\ N >= 1) =>
    /\ calls[1].op = "list"
    /\ Tail(calls) = ItemByItem(Tail(calls), N)
    /\ \A i \in 1..N : ItemCallsOk(i)
    /\ \A i \in 1..(N - 1) :
         ItemState(i + 1) # "Pending" => ItemState(i) \in {"Submitted", "Failed"}
    /\ Done => \A i \in 1..N : ItemState(i) \in {"Submitted", "Failed"}

\* a finished batch: the first item failed at its submit after a vote that
\* succeeded, the second failed at its vote
C9_Witness ==
  /\ IsBatchReview /\ Done /\ N >= 2
  /\ Len(calls) = 4
  /\ calls[2].op = "review" /\ calls[2].ok
  /\ calls[3].op = "submit" /\ ~calls[3].ok
  /\ calls[4].op = "review" /\ ~calls[4].ok

\* C10: the response of batch_review_submit_by_topic carries the error flag
\* only when the failure came before the first item (the arguments were
\* invalid or the list query gave no list), and then no vote and no submit
\* was issued; once the loop has started the response is never an error.
C10_ErrorFlag ==
  (IsBatchReview /\ Done) =>
    /\ outcome[1].isError =>
         /\ idx = 0
         /\ Mutations = <<>>
         /\ \/ ~ArgsValid
            \/ Len(calls) = 1 /\ calls[1].op = "list" /\ ~calls[1].ok
            \/ Len(calls) = 1 /\ calls[1].op = "list" /\ changes.kind = "object"
    /\ idx >= 1 => ~outcome[1].isError

\* a finished batch of two or more items that all failed
C10_Witness ==
  /\ IsBatchReview /\ Done /\ N >= 2
  /\ Len(results) = N
  /\ \A i \in 1..N : results[i].mark = "Failed"
  /\ Len(outcome) = 1 /\ ~outcome[1].isError

\* the texts that follow the prefix in chars: r with chars = Prefix \o r
AfterPrefix(chars) ==
  { r \in { SubSeq(chars, k, Len(chars)) : k \in 1..(Len(chars) + 1) } :
      chars = Prefix \o r }

\* C8: for a body that is a text beginning with the 4-character prefix the
\* unwrapper gives the JSON parse of the body without those 4 characters
\* (the parse's failure when it fails); every other body it gives back
\* unchanged; and it does so on the success path and on the error path.
C8_Unwrap ==
  path \in {"success", "error"} =>
    IF body.kind = "text" /\ AfterPrefix(body.chars) # {}
    THEN \A r \in AfterPrefix(body.chars) : data = JSONParse(r)
    ELSE data = body

\* an error body with the prefix was unwrapped to the array [1,1]
C8_Witness ==
  /\ path = "error"
  /\ body = Text(Prefix \o << "[", "1", ",", "1", "]" >>)
  /\ data = Json(Arr(<< Num(1), Num(1) >>))

IsSubmitChanges == name = "submit_changes"

\* the line that reports the submit call c
SubmitReport(c) == IF c.ok THEN "Submitted" ELSE "Failed"

\* C11: submit_changes over a list of N change ids issues exactly one submit
\* call per id, in list order, whatever happened to the earlier ids, and
\* returns a non-error response of N lines, line i reporting id i as
\* Submitted iff its submit call succeeded and as Failed otherwise.
C11_SubmitChanges ==
  (IsSubmitChanges /\ ArgsValid) =>
    /\ Len(calls) <= Len(args.changeIds)
    /\ Len(results) = Len(calls)
    /\ \A i \in 1..Len(calls) :
         /\ calls[i].op = "submit"
         /\ calls[i].id = args.changeIds[i]
         /\ results[i].id = args.changeIds[i]
         /\ results[i].mark = SubmitReport(calls[i])
    /\ Done =>
         /\ Len(calls) = Len(args.changeIds)
         /\ Len(outcome) = 1
         /\ ~outcome[1].isError
         /\ outcome[1].lines = results

\* a finished submit_changes of two or more ids whose first submit failed and
\* whose second succeeded
C11_Witness ==
  /\ IsSubmitChanges /\ Done
  /\ Len(args.changeIds) >= 2
  /\ Len(calls) = Len(args.changeIds)
  /\ ~calls[1].ok /\ calls[2].ok
  /\ Len(outcome) = 1
  /\ outcome[1].lines[1].mark = "Failed"
  /\ outcome[1].lines[2].mark = "Submitted"

============================================================================
